---- MODULE Spec2Model ----
(***************************************************************************)
(* rust-todo (src/main.rs): a command-line to-do list.  Every invocation   *)
(* of the program parses its arguments, loads the task list from the       *)
(* persistence file ~/.rust-todo.json, runs one operation on it and, when  *)
(* the operation changed the list, rewrites the whole file.                *)
(*                                                                         *)
(* The state is the persistence file and, per running process, the parsed  *)
(* command, the in-memory task vector, what was printed and the exit code. *)
(***************************************************************************)
EXTENDS Integers, Sequences, FiniteSets, TLC

\* ------------------------------------------------------------------ bounds

\* The longest task vector an add is explored on.
MaxTasks == 2
\* The largest id an add is explored to assign (ids grow without limit in
\* the program: delete the smaller ids and keep adding).
MaxId == 3
\* Invocations explored under SpecConc (the concurrent specification).
MaxConcRuns == 2

\* usize::MAX.  The id field is a usize (64 bits on the usual targets); the
\* model keeps the wrap-around of the type at 16 bits, the narrowest pointer
\* width Rust has, because the model checker's integers are 32 bits wide.
USIZE_MAX == 65535

Procs == {1, 2}

\* Values of the description argument (any String is accepted).
Descriptions == {"buy milk", "walk dog"}

\* chrono::Local::now().to_rfc3339() at the moment of an add; "t0" is an
\* earlier moment, found in files written before the run.
Clock == {"t1"}

\* ------------------------------------------------------------------- Task

Task(id, description, completed, created_at) ==
    [id |-> id, description |-> description,
     completed |-> completed, created_at |-> created_at]

Ids(ts) == {ts[i].id : i \in 1..Len(ts)}

SetMax(S) == CHOOSE m \in S : \A x \in S : x <= m

SetMin(S) == CHOOSE m \in S : \A x \in S : m <= x

\* ------------------------------------------------- the persistence file

\* serde's encoding of one Task: a JSON object of four typed members.
TaskJson(t) ==
    [id          |-> <<"num", t.id>>,
     description |-> <<"str", t.description>>,
     completed   |-> <<"bool", t.completed>>,
     created_at  |-> <<"str", t.created_at>>]

\* Deserialize for Task accepts an object that has the four members with
\* the right JSON types, the id within usize; members it does not know are
\* ignored (no deny_unknown_fields).
IsTaskJson(e) ==
    /\ {"id", "description", "completed", "created_at"} \subseteq DOMAIN e
    /\ e.id[1] = "num" /\ e.id[2] >= 0 /\ e.id[2] <= USIZE_MAX
    /\ e.description[1] = "str"
    /\ e.completed[1] = "bool"
    /\ e.created_at[1] = "str"

\* A Deserialize that skips created_at and leaves it at its default.
TaskOfJson_skip_created_at(e) ==
    Task(e.id[2], e.description[2], e.completed[2], "")

\* serde's decoding of an object IsTaskJson accepts.
TaskOfJson(e) == Task(e.id[2], e.description[2], e.completed[2], e.created_at[2])

Absent     == [kind |-> "absent", doc |-> <<>>]
\* The path exists and read_to_string fails (a directory, no permission,
\* bytes that are not UTF-8).
Unreadable == [kind |-> "unreadable", doc |-> <<>>]
\* Text that is no JSON array: empty or cut short by a failed write, or
\* anything else.
Garbage    == [kind |-> "garbage", doc |-> <<>>]
\* Not a file: what a process that has not constructed its TodoList has
\* read of the file.
NotLoaded  == [kind |-> "none", doc |-> <<>>]
\* A JSON array of objects.
JsonFile(doc) == [kind |-> "json", doc |-> doc]

\* serde_json::to_string_pretty(&self.tasks)
to_string_pretty(ts) == JsonFile([i \in 1..Len(ts) |-> TaskJson(ts[i])])

\* A load that drops the elements it cannot read and keeps the others.
load_tasks_skip_bad(f) ==
    IF f.kind = "json"
    THEN LET good == SelectSeq(f.doc, IsTaskJson)
         IN  [i \in 1..Len(good) |-> TaskOfJson(good[i])]
    ELSE <<>>

load_tasks(f) ==
    IF f.kind = "json" /\ \A i \in 1..Len(f.doc) : IsTaskJson(f.doc[i])
    THEN [i \in 1..Len(f.doc) |-> TaskOfJson(f.doc[i])]
    ELSE <<>>

\* What fs::write(path, json) leaves behind.  It opens the file with
\* create+truncate and then writes: "ok" the new text; "open_err" the open
\* failed and the file is as it was; "write_err" the file was opened (and
\* so emptied) and the write did not complete.  A write is one step: of
\* two writes that overlap, one comes wholly after the other.
WriteOutcomes == {"ok", "open_err", "write_err"}

\* A write that appends to the file instead of replacing its content.
fs_write_append(f, json, w) ==
    CASE w = "ok"        -> IF f.kind = "json" THEN JsonFile(f.doc \o json.doc) ELSE json
      [] w = "open_err"  -> f
      [] w = "write_err" -> Garbage

fs_write(f, json, w) ==
    CASE w = "ok"        -> json
      [] w = "open_err"  -> f
      [] w = "write_err" -> Garbage

\* --------------------------------------------------------- the commands

NoCmd == [op |-> "none", id |-> 0, description |-> "",
          completed |-> FALSE, pending |-> FALSE, yes |-> FALSE]

AddCmd(d)      == [NoCmd EXCEPT !.op = "add", !.description = d]
ListCmd(c, pn) == [NoCmd EXCEPT !.op = "list", !.completed = c, !.pending = pn]
CompleteCmd(i) == [NoCmd EXCEPT !.op = "complete", !.id = i]
DeleteCmd(i)   == [NoCmd EXCEPT !.op = "delete", !.id = i]
ClearCmd(y)    == [NoCmd EXCEPT !.op = "clear", !.yes = y]

\* The ids given on the command line: 0 (never assigned by add) and the ids
\* add can assign.
ArgIds == 0..MaxId

\* Command lines: the subcommand, its positional value (a run of digits, a
\* text that is no number, or none) and its flags.
Argv ==
    {[sub |-> "add", word |-> <<"text", d>>, flags |-> {}] : d \in Descriptions}
    \cup {[sub |-> "add", word |-> <<"none", "">>, flags |-> {}]}
    \cup {[sub |-> "list", word |-> <<"none", "">>, flags |-> F] :
            F \in SUBSET {"completed", "pending"}}
    \cup {[sub |-> s, word |-> <<"digits", n>>, flags |-> {}] :
            s \in {"complete", "delete"}, n \in ArgIds \cup {USIZE_MAX + 1}}
    \cup {[sub |-> s, word |-> w, flags |-> {}] :
            s \in {"complete", "delete"}, w \in {<<"text", "abc">>, <<"none", "">>}}
    \cup {[sub |-> "clear", word |-> <<"none", "">>, flags |-> F] :
            F \in SUBSET {"yes"}}

\* No command line: the process has not started.
NoArgv == [sub |-> "", word |-> <<"none", "">>, flags |-> {}]

\* str::parse::<usize>
IsUsize(w) == w[1] = "digits" /\ w[2] <= USIZE_MAX

\* Cli::parse(): the command, or NoCmd for a usage error.
Cli_parse(a) ==
    CASE a.sub = "add" ->
            IF a.word[1] = "none" THEN NoCmd ELSE AddCmd(a.word[2])
      [] a.sub = "list" ->
            ListCmd("completed" \in a.flags, "pending" \in a.flags)
      [] a.sub = "complete" ->
            IF IsUsize(a.word) THEN CompleteCmd(a.word[2]) ELSE NoCmd
      [] a.sub = "delete" ->
            IF IsUsize(a.word) THEN DeleteCmd(a.word[2]) ELSE NoCmd
      [] a.sub = "clear" -> ClearCmd("yes" \in a.flags)

\* ------------------------------------------------------ the operations

\* What an operation does to the vector and prints: the new vector, whether
\* it goes on to self.save(), the message printed when all went well, the
\* tasks listed and the count reported.
Res(ts, sv, msg, view, count) ==
    [tasks |-> ts, save |-> sv, msg |-> msg, view |-> view, count |-> count]

\* The length taken for the largest id.
max_id_len(ts) == Len(ts)

\* A maximum that falls back to 1 for an empty vector.
max_id_or_one(ts) == IF ts = <<>> THEN 1 ELSE SetMax(Ids(ts))

\* self.tasks.iter().map(|t| t.id).max().unwrap_or(0)
max_id(ts) == IF ts = <<>> THEN 0 ELSE SetMax(Ids(ts))

\* max + 1 on usize: at usize::MAX the addition panics when overflow checks
\* are on (debug builds) and wraps to 0 when they are off (release builds).
Overflow == {"panic", "wrap"}

\* An add that assigns the smallest id not in use.
add_task_first_free(ts, description, now, ovf) ==
    LET id == CHOOSE n \in 1..(Len(ts) + 1) :
                  n \notin Ids(ts) /\ \A m \in 1..(n - 1) : m \in Ids(ts)
    IN  Res(Append(ts, Task(id, description, FALSE, now)), TRUE, "added", <<>>, 0)

\* An add that puts the new task first.
add_task_front(ts, description, now, ovf) ==
    IF max_id(ts) = USIZE_MAX /\ ovf = "panic"
    THEN Res(ts, FALSE, "panic", <<>>, 0)
    ELSE LET id == (max_id(ts) + 1) % (USIZE_MAX + 1)
         IN  Res(<<Task(id, description, FALSE, now)>> \o ts,
                 TRUE, "added", <<>>, 0)

add_task(ts, description, now, ovf) ==
    IF max_id(ts) = USIZE_MAX /\ ovf = "panic"
    THEN Res(ts, FALSE, "panic", <<>>, 0)
    ELSE LET id == (max_id(ts) + 1) % (USIZE_MAX + 1)
         IN  Res(Append(ts, Task(id, description, FALSE, now)),
                 TRUE, "added", <<>>, 0)

\* A list whose --pending filter keeps the completed tasks.
list_tasks_pending_swapped(ts, show_completed, show_pending) ==
    LET filtered_tasks ==
            IF show_completed \/ show_pending
            THEN SelectSeq(ts, LAMBDA t : t.completed)
            ELSE ts
    IN  IF filtered_tasks = <<>>
        THEN Res(ts, FALSE, "no_tasks", <<>>, 0)
        ELSE Res(ts, FALSE, "listed", filtered_tasks, 0)

\* A list where --pending takes precedence over --completed.
list_tasks_pending_first(ts, show_completed, show_pending) ==
    LET filtered_tasks ==
            IF show_pending THEN SelectSeq(ts, LAMBDA t : ~t.completed)
            ELSE IF show_completed THEN SelectSeq(ts, LAMBDA t : t.completed)
            ELSE ts
    IN  IF filtered_tasks = <<>>
        THEN Res(ts, FALSE, "no_tasks", <<>>, 0)
        ELSE Res(ts, FALSE, "listed", filtered_tasks, 0)

\* List tasks: the filter on the two flags, and what is printed.
list_tasks(ts, show_completed, show_pending) ==
    LET filtered_tasks ==
            IF show_completed THEN SelectSeq(ts, LAMBDA t : t.completed)
            ELSE IF show_pending THEN SelectSeq(ts, LAMBDA t : ~t.completed)
            ELSE ts
    IN  IF filtered_tasks = <<>>
        THEN Res(ts, FALSE, "no_tasks", <<>>, 0)
        ELSE Res(ts, FALSE, "listed", filtered_tasks, 0)

\* self.tasks.iter_mut().find(|t| t.id == id): the first task with the id.
find(ts, id) ==
    LET I == {i \in 1..Len(ts) : ts[i].id = id}
    IN  IF I = {} THEN 0 ELSE SetMin(I)

\* A complete that flips the flag.
complete_task_toggle(ts, id) ==
    LET i == find(ts, id)
    IN  IF i = 0 THEN Res(ts, FALSE, "not_found", <<>>, 0)
        ELSE Res([ts EXCEPT ![i].completed = ~ts[i].completed], TRUE,
                 "completed", <<>>, 0)

\* A complete that saves also when the task was already completed.
complete_task_resave(ts, id) ==
    LET i == find(ts, id)
    IN  IF i = 0 THEN Res(ts, FALSE, "not_found", <<>>, 0)
        ELSE IF ts[i].completed THEN Res(ts, TRUE, "already_completed", <<>>, 0)
        ELSE Res([ts EXCEPT ![i].completed = TRUE], TRUE, "completed", <<>>, 0)

\* A complete that marks every task with the id.
complete_task_every_match(ts, id) ==
    LET i == find(ts, id)
    IN  IF i = 0 THEN Res(ts, FALSE, "not_found", <<>>, 0)
        ELSE IF ts[i].completed THEN Res(ts, FALSE, "already_completed", <<>>, 0)
        ELSE Res([k \in 1..Len(ts) |->
                    IF ts[k].id = id THEN [ts[k] EXCEPT !.completed = TRUE]
                    ELSE ts[k]],
                 TRUE, "completed", <<>>, 0)

\* Mark a task completed: the first task with the id, saved when it changed.
complete_task(ts, id) ==
    LET i == find(ts, id)
    IN  IF i = 0 THEN Res(ts, FALSE, "not_found", <<>>, 0)
        ELSE IF ts[i].completed THEN Res(ts, FALSE, "already_completed", <<>>, 0)
        ELSE Res([ts EXCEPT ![i].completed = TRUE], TRUE, "completed", <<>>, 0)

\* A delete that forgets to save.
delete_task_nosave(ts, id) ==
    LET retained == SelectSeq(ts, LAMBDA t : t.id # id)
    IN  IF Len(retained) < Len(ts)
        THEN Res(retained, FALSE, "deleted", <<>>, 0)
        ELSE Res(retained, FALSE, "not_found", <<>>, 0)

\* A delete that removes the first task with the id only.
delete_task_first_only(ts, id) ==
    LET i == find(ts, id)
    IN  IF i = 0 THEN Res(ts, FALSE, "not_found", <<>>, 0)
        ELSE Res(SubSeq(ts, 1, i - 1) \o SubSeq(ts, i + 1, Len(ts)),
                 TRUE, "deleted", <<>>, 0)

\* A delete that takes the id for the position in the vector.
delete_task_by_index(ts, id) ==
    IF id \in 1..Len(ts)
    THEN Res(SubSeq(ts, 1, id - 1) \o SubSeq(ts, id + 1, Len(ts)),
             TRUE, "deleted", <<>>, 0)
    ELSE Res(ts, FALSE, "not_found", <<>>, 0)

\* Delete a task: retain the tasks with another id, saved when one went.
delete_task(ts, id) ==
    LET retained == SelectSeq(ts, LAMBDA t : t.id # id)
    IN  IF Len(retained) < Len(ts)
        THEN Res(retained, TRUE, "deleted", <<>>, 0)
        ELSE Res(retained, FALSE, "not_found", <<>>, 0)

\* A clear that saves the tasks it kept when it was not confirmed.
clear_all_save_unconfirmed(ts, confirmed) ==
    IF ~confirmed THEN Res(ts, TRUE, "confirm_needed", <<>>, 0)
    ELSE Res(<<>>, TRUE, "cleared", <<>>, Len(ts))

\* A clear that counts the tasks after it has cleared them.
clear_all_count_after(ts, confirmed) ==
    IF ~confirmed THEN Res(ts, FALSE, "confirm_needed", <<>>, 0)
    ELSE Res(<<>>, TRUE, "cleared", <<>>, Len(<<>>))

\* Clear all tasks: self.tasks.clear() and save, behind the confirmation.
clear_all(ts, confirmed) ==
    IF ~confirmed THEN Res(ts, FALSE, "confirm_needed", <<>>, 0)
    ELSE Res(<<>>, TRUE, "cleared", <<>>, Len(ts))

\* The match of main on cli.command.
Dispatch(c, ts, now, ovf) ==
    CASE c.op = "add"      -> add_task(ts, c.description, now, ovf)
      [] c.op = "list"     -> list_tasks(ts, c.completed, c.pending)
      [] c.op = "complete" -> complete_task(ts, c.id)
      [] c.op = "delete"   -> delete_task(ts, c.id)
      [] c.op = "clear"    -> clear_all(ts, c.yes)

\* ------------------------------------------------------------ the state

VARIABLES
    file,       \* the persistence file
    pc,         \* per process: "idle", "parsed", "loaded", "done"
    argv,       \* per process: its command line
    cmd,        \* per process: cli.command (NoCmd: none, or a usage error)
    tasks,      \* per process: todo_list.tasks
    loaded,     \* per process: the file as TodoList::new read it
    out,        \* per process: what the operation printed
    code,       \* per process: the exit code, -1 while running
    wrote,      \* per process: "none", or how its fs::write ended
    prev,       \* the invocation that exited last
    deleted,    \* ids that an add assigned and a delete or clear removed
    nAdds,      \* adds done, as long as nothing but adds was done; else -1
    e2e,        \* steps done of the end-to-end scenario; -1 once left
    writes,     \* how many times fs::write has changed the file
    loadedAt,   \* per process: `writes` when it loaded the file
    wroteAt,    \* per process: `writes` just after its own write, 0: none
    budget,     \* invocations left to start (counted under SpecConc only)
    track       \* the histories kept: each specification keeps those its
                \* properties read ("prev", "ids", "race")

vars == <<file, pc, argv, cmd, tasks, loaded, out, code, wrote, prev, deleted,
          nAdds, e2e, writes, loadedAt, wroteAt, budget, track>>

NoOut == [msg |-> "", view |-> <<>>, count |-> 0]

NoPrev == [cmd |-> NoCmd, code |-> 0, before |-> <<>>, after |-> <<>>,
           msg |-> "", wrote |-> "none"]

\* Files found at the start: none, unreadable, corrupt, written by the
\* program, and edited by hand (ids repeated, out of order, 0, usize::MAX,
\* a member added, a member missing, an id of the wrong type or negative).
T0(id, d, c) == Task(id, d, c, "t0")

WrittenFiles ==
    {to_string_pretty(ts) : ts \in {
        <<>>,
        <<T0(1, "buy milk", FALSE)>>,
        <<T0(1, "buy milk", TRUE), T0(2, "walk dog", FALSE)>>,
        <<T0(2, "walk dog", TRUE), T0(3, "buy milk", FALSE)>> }}

HandEditedFiles ==
    {to_string_pretty(ts) : ts \in {
        <<T0(1, "buy milk", FALSE), T0(1, "walk dog", FALSE)>>,
        <<T0(2, "buy milk", FALSE), T0(1, "walk dog", TRUE)>>,
        <<T0(0, "buy milk", FALSE)>>,
        <<T0(USIZE_MAX, "buy milk", FALSE)>> }}
    \cup {JsonFile(<<[TaskJson(T0(1, "buy milk", FALSE)) EXCEPT !.id = v]>>) :
            v \in {<<"str", "1">>, <<"num", -1>>, <<"num", USIZE_MAX + 1>>}}
    \cup {JsonFile(<<[id |-> <<"num", 1>>, description |-> <<"str", "buy milk">>,
                      created_at |-> <<"str", "t0">>]>>),
          JsonFile(<<TaskJson(T0(1, "buy milk", FALSE)),
                     [id |-> <<"num", 2>>, description |-> <<"str", "walk dog">>]>>),
          JsonFile(<<[id |-> <<"num", 1>>, description |-> <<"str", "buy milk">>,
                      completed |-> <<"bool", FALSE>>,
                      created_at |-> <<"str", "t0">>,
                      note |-> <<"str", "by hand">>]>>)}

InitFiles == {Absent, Unreadable, Garbage} \cup WrittenFiles \cup HandEditedFiles

\* An empty store: no file yet, or the file of an empty vector.
EmptyFiles == {Absent, to_string_pretty(<<>>)}

InitWith(files, n, tr) ==
    /\ file \in files
    /\ pc = [p \in Procs |-> "idle"]
    /\ argv = [p \in Procs |-> NoArgv]
    /\ cmd = [p \in Procs |-> NoCmd]
    /\ tasks = [p \in Procs |-> <<>>]
    /\ loaded = [p \in Procs |-> NotLoaded]
    /\ out = [p \in Procs |-> NoOut]
    /\ code = [p \in Procs |-> -1]
    /\ wrote = [p \in Procs |-> "none"]
    /\ prev = NoPrev
    /\ deleted = {}
    /\ nAdds = IF "ids" \in tr /\ load_tasks(file) = <<>> THEN 0 ELSE -1
    /\ e2e = IF "ids" \in tr /\ load_tasks(file) = <<>> THEN 0 ELSE -1
    /\ writes = 0
    /\ loadedAt = [p \in Procs |-> 0]
    /\ wroteAt = [p \in Procs |-> 0]
    /\ budget = n
    /\ track = tr

Init == InitWith(InitFiles, 0, {"prev"})

InitEmpty == InitWith(EmptyFiles, 0, {"ids"})

InitConc == InitWith({Absent, Garbage} \cup WrittenFiles, MaxConcRuns, {"race"})

\* ---------------------------------------------------------- the actions

\* A main that constructs the TodoList before it parses the command line.
Start_after_new(p, left) ==
    /\ pc[p] = "idle"
    /\ \E a \in Argv :
         LET c == Cli_parse(a)
         IN  /\ argv' = [argv EXCEPT ![p] = a]
             /\ cmd' = [cmd EXCEPT ![p] = c]
             /\ pc' = [pc EXCEPT ![p] = IF c.op = "none" THEN "done" ELSE "parsed"]
             /\ code' = [code EXCEPT ![p] = IF c.op = "none" THEN 2 ELSE -1]
             /\ out' = [out EXCEPT ![p] = IF c.op = "none"
                                          THEN [NoOut EXCEPT !.msg = "usage"]
                                          ELSE NoOut]
    /\ tasks' = [tasks EXCEPT ![p] = load_tasks(file)]
    /\ loaded' = [loaded EXCEPT ![p] = file]
    /\ budget' = left
    /\ UNCHANGED <<file, wrote, prev, deleted, nAdds, e2e,
                   writes, loadedAt, wroteAt, track>>

\* let cli = Cli::parse(): a usage error ends the process with code 2.
Start(p, left) ==
    /\ pc[p] = "idle"
    /\ \E a \in Argv :
         LET c == Cli_parse(a)
         IN  /\ argv' = [argv EXCEPT ![p] = a]
             /\ cmd' = [cmd EXCEPT ![p] = c]
             /\ pc' = [pc EXCEPT ![p] = IF c.op = "none" THEN "done" ELSE "parsed"]
             /\ code' = [code EXCEPT ![p] = IF c.op = "none" THEN 2 ELSE -1]
             /\ out' = [out EXCEPT ![p] = IF c.op = "none"
                                          THEN [NoOut EXCEPT !.msg = "usage"]
                                          ELSE NoOut]
    /\ budget' = left
    /\ UNCHANGED <<file, tasks, loaded, wrote, prev, deleted, nAdds, e2e,
                   writes, loadedAt, wroteAt, track>>

Parse(p) == Start(p, budget)

\* let mut todo_list = TodoList::new()
New(p) ==
    /\ pc[p] = "parsed"
    /\ tasks' = [tasks EXCEPT ![p] = load_tasks(file)]
    /\ loaded' = [loaded EXCEPT ![p] = file]
    /\ loadedAt' = [loadedAt EXCEPT ![p] = writes]
    /\ pc' = [pc EXCEPT ![p] = "loaded"]
    /\ UNCHANGED <<file, argv, cmd, out, code, wrote, prev, deleted, nAdds,
                   e2e, writes, wroteAt, budget, track>>

\* The scenario: add "buy milk", add "walk dog", complete 1, list pending,
\* delete 2, list.
Scenario ==
    <<AddCmd("buy milk"), AddCmd("walk dog"), CompleteCmd(1),
      ListCmd(FALSE, TRUE), DeleteCmd(2), ListCmd(FALSE, FALSE)>>

\* TodoList::save: the file it leaves.
save(f, ts, w) == fs_write(f, to_string_pretty(ts), w)

\* A main that drops the error of the operation.
exit_code_ignore_err(r, w) == IF r.msg = "panic" THEN 101 ELSE 0

\* The end of main: 0, or 1 when the operation returned the error of save;
\* a panic ends the process with 101.
exit_code(r, w) ==
    IF r.msg = "panic" THEN 101
    ELSE IF r.save /\ w # "ok" THEN 1
    ELSE 0

\* What the process printed: the operation's message (println! comes after
\* self.save()?), or main's "Error: ..." on stderr, or the panic message.
printed(r, w) ==
    IF r.msg = "panic" THEN [NoOut EXCEPT !.msg = "panic"]
    ELSE IF r.save /\ w # "ok" THEN [NoOut EXCEPT !.msg = "error"]
    ELSE [msg |-> r.msg, view |-> r.view, count |-> r.count]

\* The add stays within the bounds explored.
InBounds(c, ts) ==
    c.op = "add" =>
        /\ Len(ts) < MaxTasks
        /\ (max_id(ts) + 1) % (USIZE_MAX + 1) <= MaxId

\* The operation main dispatches to, its self.save() and the exit of main.
Run(p) ==
    /\ pc[p] = "loaded"
    /\ InBounds(cmd[p], tasks[p])
    /\ \E now \in Clock, ovf \in Overflow, w \in WriteOutcomes :
         LET r  == Dispatch(cmd[p], tasks[p], now, ovf)
             ok == exit_code(r, w) = 0
         IN  /\ tasks' = [tasks EXCEPT ![p] = r.tasks]
             /\ wrote' = [wrote EXCEPT ![p] = IF r.save THEN w ELSE "none"]
             /\ file' = IF r.save THEN save(file, r.tasks, w) ELSE file
             /\ out' = [out EXCEPT ![p] = printed(r, w)]
             /\ code' = [code EXCEPT ![p] = exit_code(r, w)]
             /\ deleted' = IF "ids" \in track /\ r.save /\ w = "ok"
                           THEN deleted \cup (Ids(tasks[p]) \ Ids(r.tasks))
                           ELSE deleted
             /\ nAdds' = IF nAdds >= 0 /\ cmd[p].op = "add" /\ ok
                         THEN nAdds + 1 ELSE -1
             /\ e2e' = IF e2e >= 0 /\ e2e < Len(Scenario) /\ ok
                          /\ cmd[p] = Scenario[e2e + 1]
                       THEN e2e + 1 ELSE -1
             /\ writes' = IF "race" \in track /\ r.save /\ w # "open_err"
                          THEN writes + 1 ELSE writes
             /\ wroteAt' = IF "race" \in track /\ r.save /\ w # "open_err"
                           THEN [wroteAt EXCEPT ![p] = writes + 1] ELSE wroteAt
    /\ pc' = [pc EXCEPT ![p] = "done"]
    /\ UNCHANGED <<argv, cmd, loaded, prev, loadedAt, budget, track>>

\* The process is gone, and its memory with it.
Exit(p) ==
    /\ pc[p] = "done"
    /\ prev' = IF "prev" \in track
               THEN [cmd |-> cmd[p], code |-> code[p],
                     before |-> IF code[p] = 1 THEN load_tasks(loaded[p]) ELSE <<>>,
                     after |-> tasks[p],
                     msg |-> out[p].msg, wrote |-> wrote[p]]
               ELSE NoPrev
    /\ pc' = [pc EXCEPT ![p] = "idle"]
    /\ argv' = [argv EXCEPT ![p] = NoArgv]
    /\ cmd' = [cmd EXCEPT ![p] = NoCmd]
    /\ tasks' = [tasks EXCEPT ![p] = <<>>]
    /\ loaded' = [loaded EXCEPT ![p] = NotLoaded]
    /\ out' = [out EXCEPT ![p] = NoOut]
    /\ code' = [code EXCEPT ![p] = -1]
    /\ wrote' = [wrote EXCEPT ![p] = "none"]
    /\ loadedAt' = [loadedAt EXCEPT ![p] = 0]
    /\ wroteAt' = [wroteAt EXCEPT ![p] = 0]
    /\ UNCHANGED <<file, deleted, nAdds, e2e, writes, budget, track>>

\* One invocation at a time, as the program is meant to be used.
Next == Parse(1) \/ New(1) \/ Run(1) \/ Exit(1)

Spec == Init /\ [][Next]_vars

\* The same, from an empty store.
SpecEmpty == InitEmpty /\ [][Next]_vars

\* Invocations that overlap: nothing locks the file.
ParseConc(p) == budget > 0 /\ Start(p, budget - 1)

NextConc == \E p \in Procs : ParseConc(p) \/ New(p) \/ Run(p) \/ Exit(p)

SpecConc == InitConc /\ [][NextConc]_vars

\* ---------------------------------------------------------- properties

Done(p) == pc[p] = "done" /\ cmd[p].op # "none"

\* What is in the store, as the next invocation will load it.
Store == load_tasks(file)

\* C1 (Spec): after an operation that returned success, whatever the file
\* was at the start and whether or not the operation changed anything, the
\* task vector in memory is what the file holds: a load of the file gives
\* the vector, and a file the operation wrote is the text of the vector.
C1_MemoryMirrorsFile ==
    \A p \in Procs :
        (Done(p) /\ code[p] = 0) =>
            /\ load_tasks(file) = tasks[p]
            /\ (wrote[p] = "ok" => file = to_string_pretty(tasks[p]))

\* A delete took one of two tasks out and returned success.
C1_Witness ==
    \E p \in Procs :
        /\ Done(p) /\ code[p] = 0
        /\ out[p].msg = "deleted" /\ Len(tasks[p]) = 1

\* C2 as claimed (SpecEmpty): the id a successful add assigns is never the
\* id of a task that was deleted earlier.
C2_NeverReassigned ==
    \A p \in Procs :
        (Done(p) /\ cmd[p].op = "add" /\ code[p] = 0) =>
            tasks[p][Len(tasks[p])].id \notin deleted

\* C2 as amended (SpecEmpty): the id a successful add assigns is larger
\* than the id of every task left in the store; the id of a deleted task is
\* assigned again only when no task with that id or a larger one is left,
\* and a deleted id below a remaining id is never assigned again.
C2_ReassignedOnlyAboveStore ==
    \A p \in Procs :
        (Done(p) /\ cmd[p].op = "add" /\ code[p] = 0) =>
            LET n    == Len(tasks[p])
                id   == tasks[p][n].id
                left == {tasks[p][i].id : i \in 1..(n - 1)}
            IN  /\ id \in deleted => \A x \in left : x < id
                /\ \A d \in deleted : (\E x \in left : d <= x) => id # d

\* An add assigned the id of a deleted task again, next to a task that was
\* left in the store.
C2_Witness ==
    \E p \in Procs :
        /\ Done(p) /\ cmd[p].op = "add" /\ code[p] = 0
        /\ Len(tasks[p]) = 2
        /\ tasks[p][2].id \in deleted

PositiveAndUnique(ts) ==
    /\ \A i \in 1..Len(ts) : ts[i].id > 0
    /\ \A i, j \in 1..Len(ts) : i # j => ts[i].id # ts[j].id

\* C3 (SpecEmpty): from an empty store, after any sequence of invocations,
\* every id in the store (the file as loaded, and each process's vector) is
\* a positive integer and no two tasks have the same id.
C3_IdsPositiveUnique ==
    /\ PositiveAndUnique(Store)
    /\ \A p \in Procs : PositiveAndUnique(tasks[p])

\* Two tasks are in the store, added after a delete took a task out.
C3_Witness ==
    /\ Len(Store) = 2
    /\ deleted # {}
    /\ \E p \in Procs : pc[p] = "loaded" /\ Len(tasks[p]) = 2

\* C4 (SpecEmpty): from an empty store, after N adds and no other
\* operation, the store holds N tasks with the ids 1, 2, ..., N in that
\* order, none completed, whatever the descriptions.
C4_AddsYieldOneToN ==
    nAdds >= 0 =>
        /\ Len(Store) = nAdds
        /\ \A i \in 1..nAdds : Store[i].id = i /\ ~Store[i].completed
        /\ \A p \in Procs : (Done(p) /\ code[p] = 0) => tasks[p] = Store

\* Two adds were done and nothing else, with two different descriptions.
C4_Witness ==
    /\ nAdds = 2
    /\ Len(Store) = 2
    /\ Store[1].description # Store[2].description

\* C5 as claimed (SpecEmpty): in the scenario add "buy milk", add
\* "walk dog", complete 1, list --pending, delete 2, list, the first list
\* shows "walk dog" with id 2 and nothing else, and the last list shows no
\* task.
C5_EndToEnd ==
    \A p \in Procs :
        Done(p) =>
            /\ e2e = 4 =>
                 /\ Len(out[p].view) = 1
                 /\ out[p].view[1].id = 2
                 /\ out[p].view[1].description = "walk dog"
            /\ e2e = 6 => (out[p].view = <<>> /\ out[p].msg = "no_tasks")

\* C5 as amended (SpecEmpty): in the same scenario the first list shows
\* "walk dog" with id 2 and nothing else, and the last list shows one task:
\* "buy milk" with id 1, completed, which delete 2 left in the store.
C5_EndToEndOneLeft ==
    \A p \in Procs :
        Done(p) =>
            /\ e2e = 4 =>
                 /\ Len(out[p].view) = 1
                 /\ out[p].view[1].id = 2
                 /\ out[p].view[1].description = "walk dog"
                 /\ ~out[p].view[1].completed
            /\ e2e = 6 =>
                 /\ Len(out[p].view) = 1
                 /\ out[p].view[1].id = 1
                 /\ out[p].view[1].description = "buy milk"
                 /\ out[p].view[1].completed
                 /\ out[p].msg = "listed"

\* The scenario was run to its last step.
C5_Witness == e2e = 6 /\ \E p \in Procs : Done(p) /\ cmd[p].op = "list"

\* The process tried to save and fs::write failed.
WriteFailed(p) == Done(p) /\ wrote[p] \in {"open_err", "write_err"}

\* The vector `after` is `before` with the change of command c made.
Mutated(c, before, after) ==
    CASE c.op = "add" ->
            /\ Len(after) = Len(before) + 1
            /\ SubSeq(after, 1, Len(before)) = before
            /\ after[Len(after)].description = c.description
      [] c.op = "complete" ->
            /\ find(before, c.id) # 0
            /\ ~before[find(before, c.id)].completed
            /\ after = [before EXCEPT ![find(before, c.id)].completed = TRUE]
      [] c.op = "delete" ->
            /\ c.id \in Ids(before)
            /\ c.id \notin Ids(after)
            /\ Len(after) < Len(before)
      [] c.op = "clear" -> c.yes /\ after = <<>>
      [] OTHER -> FALSE

\* C6 as claimed (Spec): when the write of the file fails in add, complete,
\* delete or clear, the process exits with code 1 after reporting the
\* error, the vector in memory keeps the change, the file is what it was
\* before, and the next invocation loads the store without the change.
C6_WriteFailureKeepsFile ==
    \A p \in Procs :
        /\ WriteFailed(p) =>
             /\ code[p] = 1 /\ out[p].msg = "error"
             /\ Mutated(cmd[p], load_tasks(loaded[p]), tasks[p])
             /\ file = loaded[p]
        /\ (pc[p] = "loaded" /\ prev.code = 1) => tasks[p] = prev.before

\* C6 as amended (Spec): when the write of the file fails, the process
\* exits with code 1 after reporting the error and the vector in memory
\* keeps the change; the file is what it was before when it could not be
\* opened for writing, and is left cut short, hence unparsable, when the
\* failure came after it was opened; the next invocation loads the store
\* without the change in the first case and an empty store in the second.
C6_WriteFailureKeepsOrTruncatesFile ==
    \A p \in Procs :
        /\ WriteFailed(p) =>
             /\ code[p] = 1 /\ out[p].msg = "error"
             /\ Mutated(cmd[p], load_tasks(loaded[p]), tasks[p])
             /\ wrote[p] = "open_err" => file = loaded[p]
             /\ wrote[p] = "write_err" => (file = Garbage /\ Store = <<>>)
        /\ (pc[p] = "loaded" /\ prev.code = 1) =>
             /\ prev.wrote = "open_err" => tasks[p] = prev.before
             /\ prev.wrote = "write_err" => tasks[p] = <<>>

\* The invocation after a write that failed once the file was open finds
\* the tasks of the store gone.
C6_Witness ==
    \E p \in Procs :
        /\ pc[p] = "loaded" /\ prev.code = 1
        /\ prev.wrote = "write_err"
        /\ prev.before # <<>> /\ prev.after # <<>>

\* The write of l completed and is the last change of the file.
LastWriter(l) == Done(l) /\ wrote[l] = "ok" /\ wroteAt[l] = writes

\* e and l both loaded, then e wrote, then l wrote, and nobody else wrote
\* in between.
BothLoadedThenWrote(e, l) ==
    /\ Done(e) /\ wrote[e] = "ok"
    /\ Done(l) /\ wrote[l] = "ok"
    /\ loadedAt[e] = loadedAt[l]
    /\ wroteAt[e] = loadedAt[e] + 1
    /\ wroteAt[l] = loadedAt[l] + 2

Unparsable(f) ==
    \/ f.kind # "json"
    \/ \E i \in 1..Len(f.doc) : ~IsTaskJson(f.doc[i])

\* C8 (Spec): a file that is absent, unreadable or unparsable never makes
\* the load fail: the process goes on with an empty vector and no error,
\* and the operation does what it does on an empty store (the only error
\* left is that of its own write).
C8_LoadNeverFails ==
    \A p \in Procs :
        /\ (pc[p] = "loaded" /\ Unparsable(loaded[p])) =>
             (tasks[p] = <<>> /\ code[p] = -1 /\ out[p] = NoOut)
        /\ (Done(p) /\ Unparsable(loaded[p])) =>
             /\ code[p] \in {0, 1}
             /\ code[p] = 1 <=> wrote[p] \in {"open_err", "write_err"}
             /\ cmd[p].op = "add" =>
                  /\ tasks[p] = <<Task(1, cmd[p].description, FALSE, "t1")>>
                  /\ wrote[p] # "none"
                  /\ code[p] = 0 => (out[p].msg = "added" /\ Store = tasks[p])
             /\ cmd[p].op = "list" =>
                  (out[p].msg = "no_tasks" /\ code[p] = 0 /\ file = loaded[p])
             /\ cmd[p].op \in {"complete", "delete"} =>
                  /\ out[p].msg = "not_found" /\ code[p] = 0
                  /\ tasks[p] = <<>> /\ file = loaded[p]
             /\ cmd[p].op = "clear" =>
                  /\ tasks[p] = <<>>
                  /\ ~cmd[p].yes => (out[p].msg = "confirm_needed" /\ file = loaded[p])
                  /\ (cmd[p].yes /\ code[p] = 0) =>
                        (out[p].msg = "cleared" /\ out[p].count = 0)

\* An add was done on a file of two elements, one of them no task.
C8_Witness ==
    \E p \in Procs :
        /\ Done(p) /\ cmd[p].op = "add" /\ code[p] = 0
        /\ loaded[p].kind = "json" /\ Len(loaded[p].doc) = 2
        /\ Unparsable(loaded[p])

\* C9 (Spec): complete(id) done twice in a row on a store that has a task
\* with the id, the first returning success: the task is completed after
\* the first and after the second, the second reports "already completed"
\* and leaves the store as the first left it.
C9_CompleteIdempotent ==
    \A p \in Procs :
        (/\ Done(p) /\ cmd[p].op = "complete"
         /\ prev.cmd = cmd[p] /\ prev.code = 0
         /\ find(prev.after, cmd[p].id) # 0) =>
            LET i == find(prev.after, cmd[p].id)
            IN  /\ prev.after[i].completed
                /\ out[p].msg = "already_completed" /\ code[p] = 0
                /\ tasks[p] = prev.after
                /\ tasks[p][i].completed
                /\ wrote[p] = "none" /\ Store = prev.after

\* The first complete marked the task, the second found it completed.
C9_Witness ==
    \E p \in Procs :
        /\ Done(p) /\ cmd[p].op = "complete"
        /\ prev.cmd = cmd[p] /\ prev.code = 0 /\ prev.msg = "completed"

\* C10 (Spec): delete(id) done twice in a row, the first returning
\* success: the second reports not-found, writes nothing and leaves the
\* vector in memory and the file as it found them.
C10_SecondDeleteNotFound ==
    \A p \in Procs :
        (/\ Done(p) /\ cmd[p].op = "delete"
         /\ prev.cmd = cmd[p] /\ prev.code = 0) =>
            /\ out[p].msg = "not_found" /\ code[p] = 0
            /\ wrote[p] = "none"
            /\ tasks[p] = load_tasks(loaded[p])
            /\ tasks[p] = prev.after
            /\ file = loaded[p]

\* The first delete took the task out (of a store that keeps another), the
\* second did not find it.
C10_Witness ==
    \E p \in Procs :
        /\ Done(p) /\ cmd[p].op = "delete"
        /\ prev.cmd = cmd[p] /\ prev.code = 0 /\ prev.msg = "deleted"
        /\ tasks[p] # <<>>

\* What process p loaded when it constructed its TodoList.
Before(p) == load_tasks(loaded[p])

\* The subsequence of ts at the indices I, in the order of ts.
Sub(ts, I) ==
    [k \in 1..Cardinality(I) |->
        ts[CHOOSE i \in I : Cardinality({j \in I : j < i}) = k - 1]]

\* C11: clear without confirmation leaves the file as it was, an absent file
\* absent and a corrupt file corrupt, and leaves the tasks in memory as they
\* were loaded; it writes nothing and exits 0.
C11_UnconfirmedClearChangesNothing ==
    \A p \in Procs :
        (Done(p) /\ cmd[p].op = "clear" /\ ~cmd[p].yes) =>
            /\ file = loaded[p]
            /\ tasks[p] = Before(p)
            /\ wrote[p] = "none"
            /\ out[p].msg = "confirm_needed"
            /\ code[p] = 0

\* An unconfirmed clear has run on a corrupt file.
C11_Witness ==
    \E p \in Procs :
        /\ Done(p) /\ cmd[p].op = "clear" /\ ~cmd[p].yes
        /\ loaded[p] = Garbage

\* C12: list prints the subsequence, in the order of the store, of the
\* completed tasks when --completed is given (whatever --pending is), else of
\* the pending tasks when --pending is given, else of all tasks; it prints
\* "No tasks found." exactly when that subsequence is empty, and changes
\* nothing.
C12_ListView ==
    \A p \in Procs :
        (Done(p) /\ cmd[p].op = "list") =>
            LET ts == Before(p)
                I  == {i \in 1..Len(ts) :
                         IF cmd[p].completed THEN ts[i].completed
                         ELSE IF cmd[p].pending THEN ~ts[i].completed
                         ELSE TRUE}
            IN  /\ out[p].view = Sub(ts, I)
                /\ (out[p].msg = "no_tasks") <=> (I = {})
                /\ out[p].msg \in {"no_tasks", "listed"}
                /\ tasks[p] = ts
                /\ file = loaded[p]
                /\ wrote[p] = "none"
                /\ code[p] = 0

\* A list with both flags has printed the one completed task of a store
\* that also holds a pending task.
C12_Witness ==
    \E p \in Procs :
        /\ Done(p) /\ cmd[p].op = "list"
        /\ cmd[p].completed /\ cmd[p].pending
        /\ Len(tasks[p]) = 2
        /\ Len(out[p].view) = 1
        /\ out[p].view[1].completed

\* C13: complete of an id that is not in the store, or of a task that is
\* already completed, changes neither the tasks in memory nor the file,
\* writes nothing and exits 0.
C13_CompleteNoOp ==
    \A p \in Procs :
        (/\ Done(p) /\ cmd[p].op = "complete"
         /\ \/ cmd[p].id \notin Ids(Before(p))
            \/ Before(p)[find(Before(p), cmd[p].id)].completed) =>
            /\ tasks[p] = Before(p)
            /\ file = loaded[p]
            /\ wrote[p] = "none"
            /\ code[p] = 0
            /\ out[p].msg = IF cmd[p].id \in Ids(Before(p))
                            THEN "already_completed" ELSE "not_found"

\* A complete has run on a task that was already completed.
C13_Witness ==
    \E p \in Procs :
        /\ Done(p) /\ cmd[p].op = "complete"
        /\ out[p].msg = "already_completed"
        /\ tasks[p] # <<>>



\* A command line that is no command: add without a description, complete or
\* delete with an id that is missing, not a number, or too large for usize.
Malformed(a) ==
    \/ a.sub = "add" /\ a.word[1] # "text"
    \/ /\ a.sub \in {"complete", "delete"}
       /\ \/ a.word[1] # "digits"
          \/ a.word[2] \notin 0..USIZE_MAX

\* C14: a malformed command line ends the invocation with a usage error and
\* a non-zero exit code before the TodoList is constructed: the file is not
\* read, no operation runs, and the file is not written.
C14_UsageErrorBeforeStore ==
    /\ [](\A p \in Procs :
            (pc[p] # "idle" /\ Malformed(argv[p])) =>
                /\ pc[p] = "done"
                /\ cmd[p] = NoCmd
                /\ code[p] # 0
                /\ out[p].msg = "usage"
                /\ loaded[p] = NotLoaded
                /\ tasks[p] = <<>>
                /\ wrote[p] = "none")
    /\ [][\A p \in Procs :
            (Malformed(argv[p]) \/ Malformed(argv'[p])) => file' = file]_vars

\* "complete abc" has ended while the file holds tasks.
C14_Witness ==
    \E p \in Procs :
        /\ pc[p] = "done"
        /\ argv[p] = [sub |-> "complete", word |-> <<"text", "abc">>,
                      flags |-> {}]
        /\ code[p] = 2
        /\ Store # <<>>



\* C15: the sequence of tasks that a successful save wrote is what the next
\* invocation loads: the same tasks, field for field, in the same order.
C15_SaveLoadRoundTrip ==
    \A p \in Procs :
        (pc[p] = "loaded" /\ prev.wrote = "ok") => tasks[p] = prev.after

\* The next invocation has loaded two tasks, one of them completed, that the
\* invocation before it saved.
C15_Witness ==
    \E p \in Procs :
        /\ pc[p] = "loaded" /\ prev.wrote = "ok"
        /\ Len(prev.after) = 2
        /\ prev.after[1].completed /\ ~prev.after[2].completed
        /\ prev.after[1].created_at # prev.after[2].created_at



\* C16: delete of an id that is in the store removes the tasks with that id
\* and nothing else: the other tasks stay as they were, in the same relative
\* order, and the result is saved.
C16_DeleteRemovesOnlyMatch ==
    \A p \in Procs :
        (Done(p) /\ cmd[p].op = "delete" /\ cmd[p].id \in Ids(Before(p))) =>
            LET ts == Before(p)
            IN  /\ tasks[p] = Sub(ts, {i \in 1..Len(ts) : ts[i].id # cmd[p].id})
                /\ wrote[p] # "none"
                /\ (wrote[p] = "ok") =>
                      /\ file = to_string_pretty(tasks[p])
                      /\ code[p] = 0
                      /\ out[p].msg = "deleted"

\* The first of two tasks has been deleted and the second one saved.
C16_Witness ==
    \E p \in Procs :
        /\ Done(p) /\ cmd[p].op = "delete" /\ wrote[p] = "ok"
        /\ Len(Before(p)) = 2
        /\ cmd[p].id = Before(p)[1].id
        /\ tasks[p] = <<Before(p)[2]>>
        /\ Store = tasks[p]



\* C17: when the invocation before emptied the store, by deleting the last
\* task or by a confirmed clear, add assigns the id 1, also when 1 or a
\* higher id had been assigned before.
C17_AddAfterEmptiedAssignsOne ==
    \A p \in Procs :
        (/\ Done(p) /\ cmd[p].op = "add" /\ code[p] = 0
         /\ prev.msg \in {"deleted", "cleared"} /\ prev.code = 0
         /\ prev.after = <<>>) =>
            /\ Len(tasks[p]) = 1
            /\ tasks[p][1].id = 1
            /\ Store = tasks[p]

\* The only task left had id 3, delete 3 emptied the store, and the add
\* after it has assigned id 1.
C17_Witness ==
    \E p \in Procs :
        /\ Done(p) /\ cmd[p].op = "add" /\ code[p] = 0
        /\ prev.cmd = DeleteCmd(3) /\ prev.msg = "deleted" /\ prev.code = 0
        /\ prev.after = <<>>
        /\ Ids(tasks[p]) = {1}



\* C18: no operation changes the id, the description or the creation time of
\* a task that is in the store. complete changes one task only, the first
\* with the id, and only its flag, from false to true; add leaves the tasks
\* it found as they were and appends one; list changes nothing; delete and
\* clear only remove tasks. So no flag goes back from true to false.
C18_ExistingTasksKept ==
    \A p \in Procs :
        Done(p) =>
            LET b == Before(p)
                a == tasks[p]
            IN  CASE cmd[p].op = "add" ->
                        IF out[p].msg = "panic" THEN a = b
                        ELSE Len(a) = Len(b) + 1 /\ SubSeq(a, 1, Len(b)) = b
                  [] cmd[p].op = "complete" ->
                        /\ Len(a) = Len(b)
                        /\ \A i \in 1..Len(b) :
                             \/ a[i] = b[i]
                             \/ /\ i = find(b, cmd[p].id)
                                /\ ~b[i].completed
                                /\ a[i] = [b[i] EXCEPT !.completed = TRUE]
                  [] cmd[p].op = "list" -> a = b
                  [] cmd[p].op \in {"delete", "clear"} ->
                        \E I \in SUBSET (1..Len(b)) : a = Sub(b, I)

\* The second of two pending tasks has been completed and the first one is
\* as it was loaded.
C18_Witness ==
    \E p \in Procs :
        /\ Done(p) /\ cmd[p].op = "complete" /\ out[p].msg = "completed"
        /\ Len(Before(p)) = 2
        /\ ~Before(p)[1].completed /\ ~Before(p)[2].completed
        /\ tasks[p][1] = Before(p)[1]
        /\ tasks[p][2].completed



\* C19: a confirmed clear empties the tasks in memory and saves the empty
\* sequence, also when there was no task to clear, and reports as its count
\* the number of tasks it had loaded.
C19_ConfirmedClearEmpties ==
    \A p \in Procs :
        (Done(p) /\ cmd[p].op = "clear" /\ cmd[p].yes) =>
            /\ tasks[p] = <<>>
            /\ wrote[p] # "none"
            /\ (wrote[p] = "ok") =>
                  /\ file = to_string_pretty(<<>>)
                  /\ code[p] = 0
                  /\ out[p].msg = "cleared"
                  /\ out[p].count = Len(Before(p))

\* A confirmed clear of two tasks has saved the empty sequence and reported 2.
C19_Witness ==
    \E p \in Procs :
        /\ Done(p) /\ cmd[p].op = "clear" /\ cmd[p].yes /\ wrote[p] = "ok"
        /\ Len(Before(p)) = 2
        /\ out[p].count = 2
        /\ Store = <<>>



\* C20: for every store add can load, ids 0 and usize::MAX of a hand-edited
\* file included, add does not abort, and the id it assigns is positive and
\* greater than every id in the store: max + 1 does not wrap.
C20_AddedIdAboveAll ==
    \A p \in Procs :
        (Done(p) /\ cmd[p].op = "add") =>
            /\ out[p].msg # "panic"
            /\ code[p] # 101
            /\ Len(tasks[p]) = Len(Before(p)) + 1
            /\ LET id == tasks[p][Len(tasks[p])].id
               IN  /\ id > 0
                   /\ \A i \in Ids(Before(p)) : id > i



====
